---- MODULE Spec2Model ----
(***************************************************************************)
(* django_celery_beat/querysets.py: the timezone-offset catalog            *)
(* (get_timezone_offsets) and the UTC hour/minute annotation of crontab    *)
(* schedules (annotate_with_utc_hour_minute) with its two queryset entry   *)
(* points.                                                                 *)
(*                                                                         *)
(* Field values are strings, modelled as sequences of one-character        *)
(* strings ("*/15" is <<"*", "/", "1", "5">>), so that the regex test, the *)
(* cast to integer and the cast back to text are computed, not assumed.    *)
(* The SQL the expressions compile to is modelled with integer arithmetic: *)
(* MOD takes the sign of its dividend (PostgreSQL, MySQL, SQLite, Oracle), *)
(* FLOOR of a quotient is the mathematical floor, and an integer is        *)
(* rendered in text as its decimal numeral with a leading "-" if negative. *)
(***************************************************************************)
EXTENDS Integers, Sequences, FiniteSets, TLC

VARIABLES
    tzdb,              \* host timezone database: identifier -> current UTC offset (s)
    crontabs,          \* rows of the CrontabSchedule table, in queryset order
    timezone_offsets,  \* the catalog built by the latest call (querysets.py:41)
    raised,            \* identifiers whose resolution raised in the latest call
    result,            \* the queryset returned by the latest call
    args,              \* the field names the latest call was made with
    passes,            \* number of calls made so far
    prev_offsets       \* the catalog built by the call before the latest one

vars == <<tzdb, crontabs, timezone_offsets, raised, result, args, passes, prev_offsets>>

----------------------------------------------------------------------------
(* Bounds *)

MaxBatch == 2        \* longest queryset in the batch specification
MaxPasses == 2       \* calls per behaviour
MaxValue == 60       \* largest digits-only field value in the field specification

----------------------------------------------------------------------------
(* Strings *)

Digit == {"0", "1", "2", "3", "4", "5", "6", "7", "8", "9"}

DigitValue(c) ==
    CASE c = "0" -> 0 [] c = "1" -> 1 [] c = "2" -> 2 [] c = "3" -> 3
      [] c = "4" -> 4 [] c = "5" -> 5 [] c = "6" -> 6 [] c = "7" -> 7
      [] c = "8" -> 8 [] c = "9" -> 9

DigitChar(d) == CHOOSE c \in Digit : DigitValue(c) = d

\* hour_field__regex = r"^\d+$"
regex_digits(s) == Len(s) >= 1 /\ \A i \in 1..Len(s) : s[i] \in Digit

\* Cast(F(field), output_field=IntegerField()) of a digits-only string
RECURSIVE CastInteger(_)
CastInteger(s) ==
    IF s = <<>> THEN 0
    ELSE 10 * CastInteger(SubSeq(s, 1, Len(s) - 1)) + DigitValue(s[Len(s)])

\* Cast(<integer expression>, output_field=CharField())
RECURSIVE CastChar(_)
CastChar(n) ==
    IF n < 0 THEN <<"-">> \o CastChar(-n)
    ELSE IF n < 10 THEN <<DigitChar(n)>>
    ELSE CastChar(n \div 10) \o <<DigitChar(n % 10)>>

----------------------------------------------------------------------------
(* SQL arithmetic *)

\* Mod(a, b): SQL MOD, the remainder has the sign of the dividend
Mod(a, b) == IF a >= 0 THEN a % b ELSE -((-a) % b)

\* Floor(a / b)
Floor(a, b) == a \div b

----------------------------------------------------------------------------
(* get_timezone_offsets *)

NoOffsets == [z \in {} |-> 0]

available_timezones == DOMAIN tzdb

\* ZoneInfo(tz_name); datetime.now(tz).utcoffset().total_seconds()
utcoffset(tz_name, raising) ==
    IF tz_name \in raising THEN [exception |-> TRUE, offset_sec |-> 0]
    ELSE [exception |-> FALSE, offset_sec |-> tzdb[tz_name]]

\* variant: the except clause ends the loop (break) instead of continuing
RECURSIVE timezone_loop_break(_, _, _)
timezone_loop_break(todo, raising, offsets) ==
    IF todo = {} THEN offsets
    ELSE LET tz_name == CHOOSE z \in todo : TRUE
             r == utcoffset(tz_name, raising)
         IN  IF r.exception
             THEN offsets
             ELSE timezone_loop_break(todo \ {tz_name}, raising,
                                      (tz_name :> r.offset_sec) @@ offsets)

\* the for loop: todo are the identifiers not yet visited
RECURSIVE timezone_loop(_, _, _)
timezone_loop(todo, raising, offsets) ==
    IF todo = {} THEN offsets
    ELSE LET tz_name == CHOOSE z \in todo : TRUE
             r == utcoffset(tz_name, raising)
         IN  IF r.exception
             THEN timezone_loop(todo \ {tz_name}, raising, offsets)
             ELSE timezone_loop(todo \ {tz_name}, raising,
                                (tz_name :> r.offset_sec) @@ offsets)

\* variant: a catalog once built is kept and returned by later calls
get_timezone_offsets_cached(raising) ==
    IF timezone_offsets # NoOffsets
    THEN timezone_offsets
    ELSE timezone_loop(available_timezones, raising, NoOffsets)

get_timezone_offsets(raising) ==
    timezone_loop(available_timezones, raising, NoOffsets)

----------------------------------------------------------------------------
(* annotate_with_utc_hour_minute *)

\* variant: the default of the Case is an hour, not 0
offset_annotation_default(row, timezone_field, offsets) ==
    IF row[timezone_field] \in DOMAIN offsets
    THEN offsets[row[timezone_field]]
    ELSE 3600

\* Case(*[When(timezone_field=tz, then=Value(offsets.get(tz, 0)))], default=Value(0))
offset_annotation(row, timezone_field, offsets) ==
    IF row[timezone_field] \in DOMAIN offsets
    THEN offsets[row[timezone_field]]
    ELSE 0

\* variant: the default of the Case is the wildcard, not the field
utc_hour_annotation_star(row, hour_field) ==
    IF regex_digits(row[hour_field])
    THEN CastChar(Mod(CastInteger(row[hour_field]) - Floor(row["offset"], 3600), 24))
    ELSE <<"*">>

\* variant: the hour is reduced modulo 12
utc_hour_annotation_12(row, hour_field) ==
    IF regex_digits(row[hour_field])
    THEN CastChar(Mod(CastInteger(row[hour_field]) - Floor(row["offset"], 3600), 12))
    ELSE row[hour_field]

utc_hour_annotation(row, hour_field) ==
    IF regex_digits(row[hour_field])
    THEN CastChar(Mod(CastInteger(row[hour_field]) - Floor(row["offset"], 3600), 24))
    ELSE row[hour_field]

utc_minute_annotation(row, minute_field) ==
    IF regex_digits(row[minute_field])
    THEN CastChar(CastInteger(row[minute_field])
                  - Floor(Mod(row["offset"], 3600), 60))
    ELSE row[minute_field]

\* variant: rows whose zone is not in the catalog are filtered out
annotate_offset_known(queryset, timezone_field, offsets) ==
    LET known == SelectSeq(queryset, LAMBDA row : row[timezone_field] \in DOMAIN offsets)
    IN  [i \in 1..Len(known) |->
            ("offset" :> offset_annotation(known[i], timezone_field, offsets))
            @@ known[i]]

\* queryset.annotate(**offset_annotation)
annotate_offset(queryset, timezone_field, offsets) ==
    [i \in 1..Len(queryset) |->
        ("offset" :> offset_annotation(queryset[i], timezone_field, offsets))
        @@ queryset[i]]

\* queryset.annotate(**utc_hour_annotation, **utc_minute_annotation)
annotate_hour_minute(queryset, hour_field, minute_field) ==
    [i \in 1..Len(queryset) |->
        ("utc_hour" :> utc_hour_annotation(queryset[i], hour_field))
        @@ ("utc_minute" :> utc_minute_annotation(queryset[i], minute_field))
        @@ queryset[i]]

\* variant: no early return on an empty catalog
annotated_always(queryset, timezone_field, hour_field, minute_field, offsets) ==
    annotate_hour_minute(
        annotate_offset(queryset, timezone_field, offsets),
        hour_field, minute_field)

\* the value returned for a catalog already built
annotated(queryset, timezone_field, hour_field, minute_field, offsets) ==
    IF offsets = NoOffsets
    THEN queryset
    ELSE annotate_hour_minute(
             annotate_offset(queryset, timezone_field, offsets),
             hour_field, minute_field)

annotate_with_utc_hour_minute(queryset, timezone_field, hour_field, minute_field, raising) ==
    /\ passes < MaxPasses
    /\ timezone_offsets' = get_timezone_offsets(raising)
    /\ raised' = raising
    /\ result' = annotated(queryset, timezone_field, hour_field, minute_field,
                           timezone_offsets')
    /\ args' = [timezone_field |-> timezone_field, hour_field |-> hour_field,
                minute_field |-> minute_field]
    /\ passes' = passes + 1
    /\ prev_offsets' = timezone_offsets
    /\ UNCHANGED <<tzdb, crontabs>>

----------------------------------------------------------------------------
(* The querysets *)

\* CrontabSchedule.objects: the rows as stored
CrontabScheduleQuerySet == crontabs

\* PeriodicTask.objects: each task joined to its crontab
PeriodicTaskQuerySet ==
    [i \in 1..Len(crontabs) |->
        [crontab__timezone |-> crontabs[i].timezone,
         crontab__hour |-> crontabs[i].hour,
         crontab__minute |-> crontabs[i].minute]]

with_crontab_utc_hour_minute ==
    \E raising \in SUBSET available_timezones :
        annotate_with_utc_hour_minute(PeriodicTaskQuerySet, "crontab__timezone",
                                      "crontab__hour", "crontab__minute", raising)

with_utc_hour_minute ==
    \E raising \in SUBSET available_timezones :
        annotate_with_utc_hour_minute(CrontabScheduleQuerySet, "timezone",
                                      "hour", "minute", raising)

----------------------------------------------------------------------------
(* The host timezone database *)

\* the offsets each identifier of the batch specification takes over the year
ZoneOffsets ==
    [z \in {"UTC", "America/New_York"} |->
        IF z = "UTC" THEN {0} ELSE {-18000, -14400}]

\* a DST boundary passes: datetime.now(tz).utcoffset() changes for tz_name
DSTTransition ==
    \E tz_name \in DOMAIN tzdb :
        /\ tz_name \in DOMAIN ZoneOffsets
        /\ \E o \in ZoneOffsets[tz_name] \ {tzdb[tz_name]} :
               tzdb' = [tzdb EXCEPT ![tz_name] = o]
        /\ UNCHANGED <<crontabs, timezone_offsets, raised, result, args, passes,
                       prev_offsets>>

----------------------------------------------------------------------------
(* Batch specification: small batches, unknown zones, failing identifiers,  *)
(* DST transitions between calls                                            *)

UnknownZone == "Mars/Olympus_Mons"

BatchHourMinute ==
    { <<<<"9">>, <<"3", "0">>>>,
      <<<<"*">>, <<"3", "0">>>>,
      <<<<"9">>, <<"*", "/", "1", "5">>>> }

BatchRows ==
    { [timezone |-> z, hour |-> hm[1], minute |-> hm[2]] :
        z \in DOMAIN ZoneOffsets \cup {UnknownZone}, hm \in BatchHourMinute }

RECURSIVE SeqsUpTo(_, _)
SeqsUpTo(S, n) ==
    IF n = 0 THEN {<<>>}
    ELSE LET shorter == SeqsUpTo(S, n - 1)
         IN  shorter \cup { Append(q, e) : q \in {p \in shorter : Len(p) = n - 1}, e \in S }

NoArgs == [timezone_field |-> "", hour_field |-> "", minute_field |-> ""]

InitCall ==
    /\ timezone_offsets = NoOffsets
    /\ raised = {}
    /\ result = <<>>
    /\ args = NoArgs
    /\ passes = 0
    /\ prev_offsets = NoOffsets

Init ==
    /\ tzdb = [z \in DOMAIN ZoneOffsets |-> IF z = "UTC" THEN 0 ELSE -18000]
    /\ crontabs \in SeqsUpTo(BatchRows, MaxBatch)
    /\ InitCall

Next ==
    \/ with_utc_hour_minute
    \/ with_crontab_utc_hour_minute
    \/ DSTTransition

Spec == Init /\ [][Next]_vars

----------------------------------------------------------------------------
(* Field specification: one schedule, every digits-only and some complex    *)
(* hour and minute fields, one zone at every offset in use                  *)

FieldZone == "Local/Zone"

WholeHourOffsets == { 3600 * k : k \in -12..14 }

\* +5:30 +5:45 +3:30 +4:30 +6:30 +9:30 +10:30 +12:45 -3:30 -2:30 -9:30
SubHourOffsets ==
    { 19800, 20700, 12600, 16200, 23400, 34200, 37800, 45900, -12600, -9000, -34200 }

CatalogOffsets == WholeHourOffsets \cup SubHourOffsets

ComplexFields ==
    { <<"*">>, <<"*", "/", "1", "5">>, <<"5", "-", "1", "0">> }

\* numerals of 0..MaxValue, and the one-digit values written with a leading zero
FixedFields ==
    { CastChar(n) : n \in 0..MaxValue } \cup { <<"0">> \o CastChar(n) : n \in 0..9 }

Fields == FixedFields \cup ComplexFields

FieldRows ==
    { [timezone |-> z, hour |-> h, minute |-> m] :
        z \in {FieldZone, UnknownZone}, h \in Fields, m \in {<<"0">>, <<"*">>} }
    \cup
    { [timezone |-> z, hour |-> h, minute |-> m] :
        z \in {FieldZone, UnknownZone}, h \in {<<"9">>, <<"*">>}, m \in Fields }

InitFields ==
    /\ \E o \in CatalogOffsets : tzdb = (FieldZone :> o)
    /\ \E row \in FieldRows : crontabs = <<row>>
    /\ InitCall

NextFields ==
    \/ with_utc_hour_minute
    \/ with_crontab_utc_hour_minute

SpecFields == InitFields /\ [][NextFields]_vars

----------------------------------------------------------------------------
(* Properties *)

\* a call has returned
Called == passes > 0

\* the latest call returned an annotated queryset
Annotated == Called /\ timezone_offsets # NoOffsets

\* the queryset the latest call was made on
InputQueryset ==
    IF args.hour_field = "hour" THEN CrontabScheduleQuerySet ELSE PeriodicTaskQuerySet

InHour(i) == InputQueryset[i][args.hour_field]
InMinute(i) == InputQueryset[i][args.minute_field]
InZone(i) == InputQueryset[i][args.timezone_field]

\* a digits-only field written without a leading zero
Canonical(s) == regex_digits(s) /\ (Len(s) = 1 \/ s[1] # "0")

\* C1: a digits-only hour h in 0..23 at a whole-hour offset o in -12..+14 is
\* annotated with the numeral of (h - o/3600) mod 24, a value in 0..23
C1_UtcHourInRange ==
    Annotated =>
        \A i \in 1..Len(result) :
            (/\ regex_digits(InHour(i))
             /\ CastInteger(InHour(i)) \in 0..23
             /\ result[i].offset \in WholeHourOffsets)
            => /\ result[i].utc_hour
                    = CastChar((CastInteger(InHour(i)) - result[i].offset \div 3600) % 24)
               /\ regex_digits(result[i].utc_hour)
               /\ CastInteger(result[i].utc_hour) \in 0..23

\* C2: a digits-only minute m in 0..59 is annotated with the numeral of
\* ((m - floor((offset mod 3600) / 60)) mod 60 + 60) mod 60, a value in 0..59;
\* at +19800 the fields "9" and "0" give "4" and "30"
C2_UtcMinuteInRange ==
    Annotated =>
        \A i \in 1..Len(result) :
            /\ (regex_digits(InMinute(i)) /\ CastInteger(InMinute(i)) \in 0..59)
               => /\ result[i].utc_minute
                       = CastChar((((CastInteger(InMinute(i))
                                      - ((result[i].offset % 3600) \div 60)) % 60) + 60) % 60)
                  /\ regex_digits(result[i].utc_minute)
                  /\ CastInteger(result[i].utc_minute) \in 0..59
            /\ (result[i].offset = 19800 /\ InHour(i) = <<"9">> /\ InMinute(i) = <<"0">>)
               => (result[i].utc_hour = <<"4">> /\ result[i].utc_minute = <<"3", "0">>)

\* C3: a field that is not digits-only is annotated with itself, whatever the
\* zone, the offset and the other field of the schedule
C3_ComplexUnchanged ==
    Annotated =>
        \A i \in 1..Len(result) :
            /\ ~regex_digits(InHour(i)) => result[i].utc_hour = InHour(i)
            /\ ~regex_digits(InMinute(i)) => result[i].utc_minute = InMinute(i)

C3_Witness ==
    /\ Annotated
    /\ \E i \in 1..Len(result) :
           /\ result[i].offset = 19800
           /\ InHour(i) = <<"*", "/", "1", "5">>
           /\ regex_digits(InMinute(i))
           /\ result[i].utc_hour = <<"*", "/", "1", "5">>

\* C4: with a non-empty catalog, a schedule whose zone is not in the catalog gets
\* offset 0 and the annotations of a schedule with the same fields in a zone of
\* offset 0
C4_UnknownZoneAsZero ==
    Annotated =>
        \A i \in 1..Len(result) :
            InZone(i) \notin DOMAIN timezone_offsets
            => /\ result[i].offset = 0
               /\ \A j \in 1..Len(result) :
                      (/\ InZone(j) \in DOMAIN timezone_offsets
                       /\ timezone_offsets[InZone(j)] = 0
                       /\ InHour(j) = InHour(i)
                       /\ InMinute(j) = InMinute(i))
                      => /\ result[i].utc_hour = result[j].utc_hour
                         /\ result[i].utc_minute = result[j].utc_minute

C4_Witness ==
    /\ Annotated
    /\ Len(result) = 2
    /\ InZone(1) = UnknownZone
    /\ InZone(2) = "UTC"
    /\ "UTC" \in DOMAIN timezone_offsets
    /\ InHour(1) = <<"9">> /\ InHour(2) = <<"9">>
    /\ InMinute(1) = InMinute(2)
    /\ result[1].offset = 0
    /\ result[1].utc_hour = <<"9">>

\* C5: with an empty catalog the call returns its queryset as it received it
C5_EmptyCatalogNoOp ==
    (Called /\ timezone_offsets = NoOffsets) => result = InputQueryset

C5_Witness ==
    /\ Called
    /\ timezone_offsets = NoOffsets
    /\ Len(result) = 2
    /\ result = InputQueryset
    /\ regex_digits(InHour(1))
    /\ InZone(1) = "America/New_York"

\* C6 as stated: at offset 0 every digits-only hour and every digits-only minute
\* is annotated with itself
C6_ZeroOffsetEveryDigits ==
    Annotated =>
        \A i \in 1..Len(result) :
            result[i].offset = 0
            => /\ regex_digits(InHour(i)) => result[i].utc_hour = InHour(i)
               /\ regex_digits(InMinute(i)) => result[i].utc_minute = InMinute(i)

\* C6 amended: at offset 0 a digits-only hour without leading zero and with value
\* in 0..23, and a digits-only minute without leading zero and with value in
\* 0..59, are annotated with themselves
C6_ZeroOffsetCanonical ==
    Annotated =>
        \A i \in 1..Len(result) :
            result[i].offset = 0
            => /\ (Canonical(InHour(i)) /\ CastInteger(InHour(i)) \in 0..23)
                  => result[i].utc_hour = InHour(i)
               /\ (Canonical(InMinute(i)) /\ CastInteger(InMinute(i)) \in 0..59)
                  => result[i].utc_minute = InMinute(i)

C6_Witness ==
    /\ Annotated
    /\ InZone(1) = FieldZone
    /\ result[1].offset = 0
    /\ InHour(1) = <<"2", "3">>
    /\ result[1].utc_hour = <<"2", "3">>
    /\ result[1].utc_minute = <<"0">>

\* C7: a digits-only hour h in 0..23 annotated at a whole-hour offset o, and the
\* annotation annotated again at offset -o, gives the numeral of h
C7_HourRoundTrip ==
    Annotated =>
        \A i \in 1..Len(result) :
            (/\ regex_digits(InHour(i))
             /\ CastInteger(InHour(i)) \in 0..23
             /\ result[i].offset \in WholeHourOffsets)
            => LET back == annotated(
                               <<[timezone |-> FieldZone, hour |-> result[i].utc_hour,
                                  minute |-> InMinute(i)]>>,
                               "timezone", "hour", "minute",
                               (FieldZone :> (0 - result[i].offset)))
               IN  back[1].utc_hour = CastChar(CastInteger(InHour(i)))

\* C8: the result has the length of the queryset and its i-th row is the i-th row
\* of the queryset with the annotations that row gets on its own
C8_OneToOneInOrder ==
    Called =>
        /\ Len(result) = Len(InputQueryset)
        /\ \A i \in 1..Len(result) :
               /\ \A f \in DOMAIN InputQueryset[i] : result[i][f] = InputQueryset[i][f]
               /\ result[i] = annotated(<<InputQueryset[i]>>, args.timezone_field,
                                        args.hour_field, args.minute_field,
                                        timezone_offsets)[1]

C8_Witness ==
    /\ Annotated
    /\ Len(result) = 2
    /\ InZone(1) = UnknownZone
    /\ InZone(2) = "America/New_York"
    /\ InHour(1) = <<"*">>
    /\ InHour(2) = <<"9">>
    /\ result[1].utc_hour = <<"*">>
    /\ result[2].utc_hour = <<"1", "4">>

\* C9: every call builds a catalog whose keys are the identifiers that did not
\* raise, each with its current offset; it is empty when all of them raise
C9_CatalogOfResolved ==
    [][passes' # passes =>
          /\ DOMAIN timezone_offsets' = DOMAIN tzdb' \ raised'
          /\ \A z \in DOMAIN timezone_offsets' : timezone_offsets'[z] = tzdb'[z]
          /\ (raised' = DOMAIN tzdb' => timezone_offsets' = NoOffsets)]_vars

C9_Witness ==
    /\ Called
    /\ raised = {"UTC"}
    /\ DOMAIN timezone_offsets = {"America/New_York"}
    /\ Len(result) > 0
    /\ "offset" \in DOMAIN result[1]

\* C10: every call annotates every schedule with the offset its zone has at that
\* call (0 for a zone absent from the catalog)
C10_OffsetInForce ==
    [][(passes' # passes /\ timezone_offsets' # NoOffsets) =>
          \A i \in 1..Len(result') :
              LET z == result'[i][args'.timezone_field]
              IN  result'[i].offset
                      = IF z \in DOMAIN tzdb' \ raised' THEN tzdb'[z] ELSE 0]_vars

C10_Witness ==
    /\ passes >= 2
    /\ "America/New_York" \in DOMAIN prev_offsets
    /\ prev_offsets["America/New_York"] = -18000
    /\ \E i \in 1..Len(result) :
           /\ InZone(i) = "America/New_York"
           /\ "offset" \in DOMAIN result[i]
           /\ result[i].offset = -14400
           /\ InHour(i) = <<"9">>
           /\ result[i].utc_hour = <<"1", "3">>

====
